---- MODULE Spec2Model ----
(***************************************************************************)
(* Model of training_data.py: the label-transfer pipeline that turns a     *)
(* CAD mesh plus its feature file into a labelled point cloud.             *)
(*                                                                         *)
(* Data frames are sequences of records (one record per row, one field per *)
(* column).  A nullable cell (pandas NaN after an outer merge) is <<>>, a  *)
(* present cell holding v is <<v>>.  Vertex indices and point-cloud        *)
(* indices are 0-based as in the source; row k of a frame is element k+1   *)
(* of the sequence.  Coordinates are small integers.                       *)
(***************************************************************************)
EXTENDS Integers, Sequences, FiniteSets, TLC

\* Bounds of the explored inputs.
MaxIdxs == 3        \* vertex-index occurrences in one feature file
MaxPoints == 2      \* points returned by the sampler

Runs == {1, 2}

Null == <<>>
Some(v) == <<v>>
IsNull(c) == Len(c) = 0

\* mesh.vertex_matrix(): vertex i is orig_points[i + 1].
orig_points == << <<0, 0, 0>>, <<2, 0, 0>>, <<0, 2, 1>> >>

\* Surface points the Monte-Carlo sampler may return.
SurfacePoints == { <<1, 0, 0>>, <<0, 1, 0>>, <<0, 2, 1>> }

Ok(v) == [ok |-> TRUE, val |-> v, err |-> ""]
Raise(e) == [ok |-> FALSE, val |-> <<>>, err |-> e]

(***************************************************************************)
(* Generic frame operations (pandas).                                      *)
(***************************************************************************)
\* df.assign(col=series): the column col holds series[k] in row k.
Assign(df, col, series) ==
    [k \in 1..Len(df) |->
        [c \in (DOMAIN df[k]) \cup {col} |-> IF c = col THEN series[k] ELSE df[k][c]]]

\* series.map(f) is written [k \in 1..Len(df) |-> f(df[k])] where it is used.

Drop(df, cols) ==
    [k \in 1..Len(df) |-> [c \in (DOMAIN df[k]) \ cols |-> df[k][c]]]

RECURSIVE Concat(_, _)
Concat(ss, k) == IF k > Len(ss) THEN <<>> ELSE ss[k] \o Concat(ss, k + 1)

\* The rows of df at the positions of ks, in increasing position order.
RECURSIVE Rows(_, _, _)
Rows(df, ks, k) ==
    IF k > Len(df) THEN <<>>
    ELSE (IF k \in ks THEN <<df[k]>> ELSE <<>>) \o Rows(df, ks, k + 1)

(***************************************************************************)
(* mark_edges_and_corners and its helpers.                                 *)
(***************************************************************************)
\* curv_info.vert_indices.explode() ... reset_index(): one (curv_id, idx)
\* row per occurrence, curve after curve.
Explode(curves) ==
    Concat([c \in 1..Len(curves) |->
               [i \in 1..Len(curves[c]) |-> [curv_id |-> c - 1, idx |-> curves[c][i]]]], 1)

\* edge.idx.value_counts()[i]
val_counts(edge, i) == Cardinality({k \in 1..Len(edge) : edge[k].idx = i})

\* Mutant of _mark_corner: edge.idx.duplicated() flags only the repeats of an
\* index, not its first occurrence.
_mark_corner_duplicated(edge) ==
    Assign(edge, "is_corner",
           [k \in 1..Len(edge) |-> \E j \in 1..(k - 1) : edge[j].idx = edge[k].idx])

_mark_corner(edge) ==
    Assign(edge, "is_corner", [k \in 1..Len(edge) |-> val_counts(edge, edge[k].idx) > 1])

_merge_coords(edge, points) ==
    Assign(Assign(Assign(edge,
        "x", [k \in 1..Len(edge) |-> points[edge[k].idx + 1][1]]),
        "y", [k \in 1..Len(edge) |-> points[edge[k].idx + 1][2]]),
        "z", [k \in 1..Len(edge) |-> points[edge[k].idx + 1][3]])

mark_edges_and_corners(points, feat) ==
    IF "curves" \notin DOMAIN feat THEN Raise("KeyError")
    ELSE IF Len(feat.curves) = 0 THEN Raise("AttributeError")
    ELSE IF \E c \in 1..Len(feat.curves) : Len(feat.curves[c]) = 0 THEN Raise("ValueError")
    ELSE LET edge == Explode(feat.curves) IN
         IF \E k \in 1..Len(edge) : edge[k].idx \notin 0..(Len(points) - 1)
         THEN Raise("IndexError")
         ELSE Ok(_merge_coords(_mark_corner(edge), points))

(***************************************************************************)
(* transfer_labels and its helpers.                                        *)
(***************************************************************************)
\* curv.drop_duplicates(subset=["idx"]): the first row of every idx.
drop_duplicates(curv) ==
    Rows(curv, {k \in 1..Len(curv) : \A j \in 1..(k - 1) : curv[j].idx # curv[k].idx}, 1)

\* np.square(dist_vects).sum(axis=1)[j] for pcloud row j (0-based).
dist(row, pcloud, j) ==
    LET p == pcloud[j + 1] IN
    (p.x - row.x) * (p.x - row.x) + (p.y - row.y) * (p.y - row.y) + (p.z - row.z) * (p.z - row.z)

\* Mutant of argmin: a scan that also replaces the best by an equal distance
\* returns the last minimum.
RECURSIVE argmin_last(_, _, _, _)
argmin_last(row, pcloud, j, best) ==
    IF j >= Len(pcloud) THEN best
    ELSE argmin_last(row, pcloud, j + 1,
                     IF dist(row, pcloud, j) <= dist(row, pcloud, best) THEN j ELSE best)

\* dist.argmin() over indices j..n-1, given the best index so far: a linear
\* scan that replaces the best only by a strictly smaller distance.
RECURSIVE argmin(_, _, _, _)
argmin(row, pcloud, j, best) ==
    IF j >= Len(pcloud) THEN best
    ELSE argmin(row, pcloud, j + 1,
                IF dist(row, pcloud, j) < dist(row, pcloud, best) THEN j ELSE best)

\* Mutant of _transfer_gt_labels: an argmin that answers 0 for an empty array.
_transfer_gt_labels_no_raise(row, pcloud) == Ok(argmin(row, pcloud, 1, 0))

\* argmin of an empty array raises ValueError.
_transfer_gt_labels(row, pcloud) ==
    IF Len(pcloud) = 0 THEN Raise("ValueError") ELSE Ok(argmin(row, pcloud, 1, 0))

\* curv_.apply(_transfer_gt_labels, pcloud=pcloud, axis=1).  On a frame with
\* rows the function runs on every row and the first exception propagates.
\* On a frame without rows pandas calls the function once on a probe row and
\* swallows its exception: a probe that returns gives an empty Series, a
\* probe that raises gives a copy of the frame.  The probe is an all-NaN row
\* carrying the frame's columns (probe_by_columns; argmin then raises only
\* on an empty cloud) or an empty row on which row[["x","y","z"]] raises,
\* depending on the installed pandas.
apply(curv_, pcloud, probe_by_columns) ==
    IF Len(curv_) = 0
    THEN [ok |-> TRUE, val |-> <<>>, err |-> "",
          frame |-> ~(probe_by_columns /\ Len(pcloud) > 0)]
    ELSE LET rs == [k \in 1..Len(curv_) |-> _transfer_gt_labels(curv_[k], pcloud)] IN
         IF \E k \in 1..Len(rs) : ~rs[k].ok
         THEN [ok |-> FALSE, val |-> <<>>, err |-> "ValueError", frame |-> FALSE]
         ELSE [ok |-> TRUE, val |-> [k \in 1..Len(rs) |-> rs[k].val], err |-> "",
               frame |-> FALSE]

\* One row of the right merge: pcloud row j joined with the left row l, or
\* with NaN in the left columns when l is Null.  The overlapping left
\* columns x, y, z get the suffix "_orig".
merged_row(l, j, p) ==
    [curv_id       |-> IF IsNull(l) THEN Null ELSE Some(l[1].curv_id),
     idx           |-> IF IsNull(l) THEN Null ELSE Some(l[1].idx),
     is_corner     |-> IF IsNull(l) THEN Null ELSE Some(l[1].is_corner),
     x_orig        |-> IF IsNull(l) THEN Null ELSE Some(l[1].x),
     y_orig        |-> IF IsNull(l) THEN Null ELSE Some(l[1].y),
     z_orig        |-> IF IsNull(l) THEN Null ELSE Some(l[1].z),
     pcloud_df_idx |-> j,
     x |-> p.x, y |-> p.y, z |-> p.z]

\* left.merge(pcloud, how="right", left_on="pcloud_df_idx", right_index=True):
\* the keys of the right frame in their order, every key with all the left
\* rows that carry it (in left order), or one NaN-filled row when there is none.
merge(left, pcloud) ==
    Concat([i \in 1..Len(pcloud) |->
        LET ms == Rows(left, {k \in 1..Len(left) : left[k].pcloud_df_idx = i - 1}, 1) IN
        IF Len(ms) = 0 THEN << merged_row(Null, i - 1, pcloud[i]) >>
        ELSE [m \in 1..Len(ms) |-> merged_row(Some(ms[m]), i - 1, pcloud[i])]], 1)

\* Mutant of assign_labels: is_edge taken from the corner flag.
assign_labels_edge_from_corner(df) ==
    Assign(Assign(df,
        "is_edge", [k \in 1..Len(df) |-> df[k].is_corner = Some(TRUE)]),
        "is_corner", [k \in 1..Len(df) |-> df[k].is_corner = Some(TRUE)])

\* .assign(is_edge=df.is_corner.notna(), is_corner=df.is_corner == True)
assign_labels(df) ==
    Assign(Assign(df,
        "is_edge", [k \in 1..Len(df) |-> ~IsNull(df[k].is_corner)]),
        "is_corner", [k \in 1..Len(df) |-> df[k].is_corner = Some(TRUE)])

\* The values transfer_labels computes: its locals and its result.
transfer_labels(curv, pcloud, probe_by_columns) ==
    LET curv_ == drop_duplicates(curv)
        a == apply(curv_, pcloud, probe_by_columns)
        left == Assign(curv_, "pcloud_df_idx", a.val)
        m == merge(left, pcloud)
    IN  IF ~a.ok
        THEN [ok |-> FALSE, err |-> a.err, curv_ |-> curv_,
              pcloud_df_idxs |-> <<>>, merged |-> <<>>, val |-> <<>>]
        ELSE IF a.frame
        THEN [ok |-> FALSE, err |-> "ValueError", curv_ |-> curv_,
              pcloud_df_idxs |-> <<>>, merged |-> <<>>, val |-> <<>>]
        ELSE [ok |-> TRUE, err |-> "", curv_ |-> curv_,
              pcloud_df_idxs |-> a.val, merged |-> m,
              val |-> assign_labels(Drop(m, {"idx", "pcloud_df_idx"}))]

(***************************************************************************)
(* File names.  A name is a sequence of one-character strings.             *)
(***************************************************************************)
\* Mutant of _format_pcloud_filename: the prefix left out of the file name.
_format_pcloud_filename_no_prefix(name) == Ok(<<"pcloud_points.parq">>)

\* re.match(r"([^_]+)_", name): the characters before the first underscore,
\* which must not be the first character; no match gives None and .group
\* raises AttributeError.
_format_pcloud_filename(name) ==
    LET us == {k \in 1..Len(name) : name[k] = "_"} IN
    IF us = {} \/ 1 \in us THEN Raise("AttributeError")
    ELSE LET u == CHOOSE k \in us : \A j \in us : k <= j IN
         Ok(SubSeq(name, 1, u - 1) \o <<"_pcloud_points.parq">>)

\* (DATA_DIR / "obj" / path_id).glob("*.obj")
obj_glob(path_id) ==
    CASE path_id = "0001" -> <<"0001/m.obj">>
      [] path_id = "0002" -> <<"0002/m.obj">>
      [] path_id = "0003" -> <<>>
      [] OTHER -> <<"0004/m.obj", "0004/n.obj">>

_get_corresponding_obj_path(path) ==
    LET obj_paths == obj_glob(path.dir) IN
    IF Len(obj_paths) # 1 THEN Raise("AssertionError") ELSE Ok(obj_paths[1])

(***************************************************************************)
(* State.  Every run of generate_one_pcloud (one per feature file) has its *)
(* program position pc[r], its argument feat_path[r], its local values     *)
(* locals[r] and the exception that ended it, error[r].  feat_yaml[r] is   *)
(* the content of the run's feature file and sampled[r] the points the     *)
(* Monte-Carlo sampler draws for it.  files is the content of the          *)
(* directory DATA_DIR / "pcloud", shared by all runs.  entry[r] names the  *)
(* function the run was started at: transfer_labels is also called on its  *)
(* own, with frames the caller built.                                      *)
(***************************************************************************)
VARIABLES pc, entry, feat_path, feat_yaml, sampled, locals, error, files

vars == <<pc, entry, feat_path, feat_yaml, sampled, locals, error, files>>
env == <<entry, feat_path, feat_yaml, sampled>>

Point(t) == [x |-> t[1], y |-> t[2], z |-> t[3]]

\* Point clouds of at most n sampled points.
PCloudsUpTo(n) == UNION {[1..k -> {Point(t) : t \in SurfacePoints}] : k \in 0..n}

VertIds == 0..(Len(orig_points) - 1)

\* Curve lists with at most n vertex-index occurrences in all, every curve
\* non-empty.
RECURSIVE CurveLists(_)
CurveLists(n) ==
    IF n = 0 THEN {<<>>}
    ELSE {<<>>} \cup
         UNION {{<<c>> \o rest : rest \in CurveLists(n - Len(c))} :
                    c \in UNION {[1..k -> VertIds] : k \in 1..n}}

Feats == {[curves |-> cl] : cl \in CurveLists(MaxIdxs)}

NoLocals ==
    [obj_path |-> "", cad_model |-> <<>>, feat |-> <<>>, pcloud |-> <<>>, curv |-> <<>>,
     curv_ |-> <<>>, pcloud_df_idxs |-> <<>>, merged |-> <<>>, pcloud_ |-> <<>>]

\* One run in detail: generate_one_pcloud on a well-placed feature file with
\* any feature content and any sampler result, or transfer_labels called
\* with a frame without rows and any point cloud (mark_edges_and_corners
\* never returns such a frame: it raises on a feature file without vertex
\* indices).  The second run stays idle.
Init ==
    /\ feat_path = [r \in Runs |-> [dir |-> "0001", name |-> <<"a", "_", "f">>]]
    /\ error = [r \in Runs |-> ""]
    /\ files = {}
    /\ \E f \in Feats, p \in PCloudsUpTo(MaxPoints) :
          /\ feat_yaml = [r \in Runs |-> f]
          /\ sampled = [r \in Runs |-> p]
          /\ \/ /\ entry = [r \in Runs |-> "generate_one_pcloud"]
                /\ pc = [r \in Runs |-> IF r = 1 THEN "resolve" ELSE "idle"]
                /\ locals = [r \in Runs |-> NoLocals]
             \/ /\ f = [curves |-> <<>>]
                /\ entry = [r \in Runs |-> "transfer_labels"]
                /\ pc = [r \in Runs |-> IF r = 1 THEN "transfer" ELSE "idle"]
                /\ locals = [r \in Runs |-> [NoLocals EXCEPT !.pcloud = p]]

\* Feature files of a batch: directory (the path id) and file name.
BatchPaths ==
    { [dir |-> "0001", name |-> <<"a", "_", "f">>],
      [dir |-> "0001", name |-> <<"a", "_", "g">>],
      [dir |-> "0002", name |-> <<"a", "_", "f">>],
      [dir |-> "0002", name |-> <<"b", "_", "f">>],
      [dir |-> "0002", name |-> <<"f">>],
      [dir |-> "0003", name |-> <<"b", "_", "g">>],
      [dir |-> "0004", name |-> <<"b", "_", "g">>] }

BatchFeats ==
    { [curves |-> << <<0, 1, 0>> >>],
      [curves |-> << <<0, 3>> >>],
      [curves |-> << <<>> >>],
      [surfaces |-> <<>>] }

BatchClouds ==
    { <<>>, << Point(<<1, 0, 0>>) >>, << Point(<<0, 1, 0>>), Point(<<1, 0, 0>>) >> }

\* Two runs of generate_one_pcloud for two different feature files, their
\* steps interleaved in any order.
InitBatch ==
    /\ entry = [r \in Runs |-> "generate_one_pcloud"]
    /\ pc = [r \in Runs |-> "resolve"]
    /\ locals = [r \in Runs |-> NoLocals]
    /\ error = [r \in Runs |-> ""]
    /\ files = {}
    /\ feat_path \in [Runs -> BatchPaths]
    /\ feat_path[1] # feat_path[2]
    /\ feat_yaml \in [Runs -> BatchFeats]
    /\ sampled \in [Runs -> BatchClouds]

Goto(r, p) == pc' = [pc EXCEPT ![r] = p]
Fail(r, e) == /\ pc' = [pc EXCEPT ![r] = "failed"]
              /\ error' = [error EXCEPT ![r] = e]

\* pcloud_.to_parquet(filepath): the file at filepath holds the frame.
to_parquet(fs, filepath, data) ==
    {f \in fs : f.path # filepath} \cup {[path |-> filepath, data |-> data]}

\* line 17: obj_path = _get_corresponding_obj_path(feat_path)
ResolveObj(r) ==
    /\ pc[r] = "resolve"
    /\ LET res == _get_corresponding_obj_path(feat_path[r]) IN
       IF res.ok
       THEN /\ locals' = [locals EXCEPT ![r].obj_path = res.val]
            /\ Goto(r, "read_obj")
            /\ UNCHANGED error
       ELSE /\ Fail(r, res.err)
            /\ UNCHANGED locals
    /\ UNCHANGED <<env, files>>

\* line 18: cad_model = read_obj(obj_path)
ReadObj(r) ==
    /\ pc[r] = "read_obj"
    /\ locals' = [locals EXCEPT ![r].cad_model = orig_points]
    /\ Goto(r, "read_feat")
    /\ UNCHANGED <<env, error, files>>

\* line 19: feat = read_feat(feat_path)
ReadFeat(r) ==
    /\ pc[r] = "read_feat"
    /\ locals' = [locals EXCEPT ![r].feat = feat_yaml[r]]
    /\ Goto(r, "sample")
    /\ UNCHANGED <<env, error, files>>

\* Mutant of SamplePointCloud: the sampled cloud is written to the output
\* file as soon as it exists, before the labels are computed.
SamplePointCloudAndWrite(r) ==
    /\ pc[r] = "sample"
    /\ locals' = [locals EXCEPT ![r].pcloud = sampled[r]]
    /\ files' = to_parquet(files, feat_path[r].name, sampled[r])
    /\ Goto(r, "mark")
    /\ UNCHANGED <<env, error>>

\* line 21: pcloud = sample_point_cloud(cad_model)
SamplePointCloud(r) ==
    /\ pc[r] = "sample"
    /\ locals' = [locals EXCEPT ![r].pcloud = sampled[r]]
    /\ Goto(r, "mark")
    /\ UNCHANGED <<env, error, files>>

\* line 23: curv = mark_edges_and_corners(cad_model.mesh(0), feat)
MarkEdgesAndCorners(r) ==
    /\ pc[r] = "mark"
    /\ LET res == mark_edges_and_corners(locals[r].cad_model, locals[r].feat) IN
       IF res.ok
       THEN /\ locals' = [locals EXCEPT ![r].curv = res.val]
            /\ Goto(r, "transfer")
            /\ UNCHANGED error
       ELSE /\ Fail(r, res.err)
            /\ UNCHANGED locals
    /\ UNCHANGED <<env, files>>

\* line 25: pcloud_ = transfer_labels(curv, pcloud)
TransferLabels(r) ==
    /\ pc[r] = "transfer"
    /\ \E probe_by_columns \in BOOLEAN :
         LET res == transfer_labels(locals[r].curv, locals[r].pcloud, probe_by_columns) IN
         /\ locals' = [locals EXCEPT ![r].curv_ = res.curv_,
                                     ![r].pcloud_df_idxs = res.pcloud_df_idxs,
                                     ![r].merged = res.merged,
                                     ![r].pcloud_ = res.val]
         /\ IF res.ok
            THEN /\ Goto(r, IF entry[r] = "transfer_labels" THEN "returned" ELSE "write")
                 /\ UNCHANGED error
            ELSE Fail(r, res.err)
    /\ UNCHANGED <<env, files>>

\* line 27: write_pcloud(pcloud_, orig_feat_path=feat_path)
WritePcloud(r) ==
    /\ pc[r] = "write"
    /\ LET filename == _format_pcloud_filename(feat_path[r].name) IN
       IF filename.ok
       THEN /\ files' = to_parquet(files, filename.val, locals[r].pcloud_)
            /\ Goto(r, "done")
            /\ UNCHANGED error
       ELSE /\ Fail(r, filename.err)
            /\ UNCHANGED files
    /\ UNCHANGED <<env, locals>>

Next ==
    \E r \in Runs :
        \/ ResolveObj(r)
        \/ ReadObj(r)
        \/ ReadFeat(r)
        \/ SamplePointCloud(r)
        \/ MarkEdgesAndCorners(r)
        \/ TransferLabels(r)
        \/ WritePcloud(r)

Spec == Init /\ [][Next]_vars

SpecBatch == InitBatch /\ [][Next]_vars

(***************************************************************************)
(* Properties.                                                             *)
(***************************************************************************)
\* transfer_labels has returned a result in run r.
Returned(r) == pc[r] \in {"returned", "write", "done"}

\* Squared Euclidean distance between boundary point b and sampled point p.
SqDist(b, p) ==
    (p.x - b.x) * (p.x - b.x) + (p.y - b.y) * (p.y - b.y) + (p.z - b.z) * (p.z - b.z)

\* j (0-based) is the nearest sampled point of boundary point b: no point is
\* closer and no point of a lower index is as close.
IsNearest(b, cloud, j) ==
    /\ j \in 0..(Len(cloud) - 1)
    /\ \A i \in 0..(Len(cloud) - 1) :
          /\ SqDist(b, cloud[j + 1]) <= SqDist(b, cloud[i + 1])
          /\ i < j => SqDist(b, cloud[j + 1]) < SqDist(b, cloud[i + 1])

\* Some boundary point of run r has sampled point j as its nearest neighbour.
Hit(r, j) ==
    \E k \in 1..Len(locals[r].curv) : IsNearest(locals[r].curv[k], locals[r].pcloud, j)

\* Number of occurrences of vertex index i in all the curves.
Occurrences(curves, i) ==
    Cardinality(UNION {{<<c, p>> : p \in {q \in 1..Len(curves[c]) : curves[c][q] = i}} :
                          c \in 1..Len(curves)})

\* The curves (0-based ids) that reference vertex index i.
CurvesOf(curves, i) ==
    {c \in 1..Len(curves) : \E p \in 1..Len(curves[c]) : curves[c][p] = i}

\* C1: for N >= 1 and any boundary-point list, the result of transfer_labels
\* has exactly N rows and row i carries the coordinates of input point i.
C1_RowsPreserved ==
    \A r \in Runs :
        Returned(r) /\ Len(locals[r].pcloud) >= 1 =>
            /\ Len(locals[r].pcloud_) = Len(locals[r].pcloud)
            /\ \A i \in 1..Len(locals[r].pcloud) :
                  /\ i <= Len(locals[r].pcloud_)
                  /\ locals[r].pcloud_[i].x = locals[r].pcloud[i].x
                  /\ locals[r].pcloud_[i].y = locals[r].pcloud[i].y
                  /\ locals[r].pcloud_[i].z = locals[r].pcloud[i].z

\* C2: every row of the result belongs to one sampled point and every
\* sampled point has a row; a row has is_edge = TRUE exactly when some
\* boundary point has its sampled point as nearest neighbour, and a row with
\* is_edge = FALSE has is_corner = FALSE.
C2_EdgeIffNearest ==
    \A r \in Runs :
        Returned(r) =>
            LET out == locals[r].pcloud_
                m == locals[r].merged
                cloud == locals[r].pcloud
            IN  /\ Len(out) = Len(m)
                /\ \A j \in 0..(Len(cloud) - 1) : \E k \in 1..Len(m) : m[k].pcloud_df_idx = j
                /\ \A k \in 1..Len(out) :
                      LET j == m[k].pcloud_df_idx IN
                      /\ j \in 0..(Len(cloud) - 1)
                      /\ out[k].x = cloud[j + 1].x
                      /\ out[k].y = cloud[j + 1].y
                      /\ out[k].z = cloud[j + 1].z
                      /\ out[k].is_edge <=> Hit(r, j)
                      /\ ~out[k].is_edge => ~out[k].is_corner

\* A result with an edge row and a non-edge row.
C2_Witness ==
    \E r \in Runs :
        /\ Returned(r)
        /\ \E k \in 1..Len(locals[r].pcloud_) : locals[r].pcloud_[k].is_edge
        /\ \E k \in 1..Len(locals[r].pcloud_) : ~locals[r].pcloud_[k].is_edge

\* C3: a boundary point is a corner exactly when its vertex index is
\* referenced by at least two distinct curves.
C3_CornerIffTwoCurves ==
    \A r \in Runs :
        \A k \in 1..Len(locals[r].curv) :
            locals[r].curv[k].is_corner <=>
                Cardinality(CurvesOf(locals[r].feat.curves, locals[r].curv[k].idx)) >= 2

\* C4: after mark_edges_and_corners all entries of one vertex index carry
\* the same is_corner, TRUE exactly when the index occurs more than once in
\* the flattened curve sequence; the entry drop_duplicates keeps is a corner
\* for every index that occurs more than once, and every index is kept once.
C4_DedupKeepsCorner ==
    \A r \in Runs :
        LET curv == locals[r].curv
            curv_ == locals[r].curv_
        IN  /\ \A k \in 1..Len(curv) :
                  /\ curv[k].is_corner <=> Occurrences(locals[r].feat.curves, curv[k].idx) > 1
                  /\ \A m \in 1..Len(curv) :
                        curv[m].idx = curv[k].idx => curv[m].is_corner = curv[k].is_corner
            /\ pc[r] \in {"write", "done", "failed"} /\ Len(curv) > 0 =>
                  /\ \A k \in 1..Len(curv) :
                        Cardinality({m \in 1..Len(curv_) : curv_[m].idx = curv[k].idx}) = 1
                  /\ \A m \in 1..Len(curv_) :
                        Occurrences(locals[r].feat.curves, curv_[m].idx) > 1
                            => curv_[m].is_corner

\* transfer_labels has deduplicated a list in which one vertex index occurs
\* twice and another once.
C4_Witness ==
    \E r \in Runs :
        /\ pc[r] \in {"write", "done"}
        /\ Len(locals[r].curv_) < Len(locals[r].curv)
        /\ \E m \in 1..Len(locals[r].curv_) : locals[r].curv_[m].is_corner
        /\ \E m \in 1..Len(locals[r].curv_) : ~locals[r].curv_[m].is_corner

\* The characters of a file name before its first underscore (the whole
\* name when it has none).
LeadingToken(name) ==
    SubSeq(name, 1, Cardinality({k \in 1..Len(name) :
                                    \A j \in 1..k : name[j] # "_"}))

\* C5: the output directory changes only in the last step of a run, the one
\* that completes it; a step that fails a run changes no file, and a failed
\* or completed run takes no further step.
C5_WriteIsLastStep ==
    [][/\ files' # files => \E r \in Runs : pc[r] = "write" /\ pc'[r] = "done"
       /\ \A r \in Runs :
             /\ pc'[r] = "failed" /\ pc[r] # "failed" => files' = files
             /\ pc[r] \in {"failed", "done"} => pc'[r] = pc[r]]_vars

\* A run has failed in its last step, after a successful transfer, and the
\* output directory is empty.
C5_Witness ==
    \E r \in Runs :
        /\ pc[r] = "failed"
        /\ error[r] = "AttributeError"
        /\ Len(locals[r].pcloud_) > 0
        /\ \E o \in Runs : pc[o] = "failed" /\ error[o] = "ValueError"
        /\ files = {}

\* The file run r writes holds the frame run r computed.
FileOfRunIntact(r) ==
    [path |-> LeadingToken(feat_path[r].name) \o <<"_pcloud_points.parq">>,
     data |-> locals[r].pcloud_] \in files

\* C6 as stated: whatever the two feature files, the output file of every
\* completed run holds the content that run produced.
C6_NoSharedOutput ==
    \A r \in Runs : pc[r] = "done" => FileOfRunIntact(r)

\* C6 amended: when the names of the two feature files have different
\* leading tokens, the completed runs wrote different files and the output
\* file of every completed run holds the content that run produced.
C6_DistinctTokensIsolated ==
    \A r \in Runs :
        /\ pc[r] = "done"
        /\ \A o \in Runs \ {r} :
              LeadingToken(feat_path[o].name) # LeadingToken(feat_path[r].name)
        => /\ FileOfRunIntact(r)
           /\ \A o \in Runs \ {r} :
                 pc[o] = "done" => FileOfRunIntact(o) /\ Cardinality(files) = 2

\* Both runs are complete, their feature files have different leading
\* tokens, and the two output files hold different frames.
C6_Witness ==
    /\ \A r \in Runs : pc[r] = "done"
    /\ LeadingToken(feat_path[1].name) # LeadingToken(feat_path[2].name)
    /\ locals[1].pcloud_ # locals[2].pcloud_
    /\ Cardinality(files) = 2

\* C7: every row transfer_labels returns, and every row write_pcloud
\* persists, has exactly the columns x, y, z, is_edge, is_corner, and there
\* is one row per sampled point.
C7_FiveColumns ==
    /\ \A r \in Runs :
          Returned(r) =>
              /\ Len(locals[r].pcloud_) = Len(locals[r].pcloud)
              /\ \A k \in 1..Len(locals[r].pcloud_) :
                    DOMAIN locals[r].pcloud_[k] = {"x", "y", "z", "is_edge", "is_corner"}
    /\ \A f \in files :
          \A k \in 1..Len(f.data) :
              DOMAIN f.data[k] = {"x", "y", "z", "is_edge", "is_corner"}

\* C8: transfer_labels never returns a result for an empty point cloud.
C8_EmptyCloudFails ==
    \A r \in Runs : Returned(r) => Len(locals[r].pcloud) > 0

\* transfer_labels, called with an empty boundary list and an empty point
\* cloud, has raised.
C8_Witness ==
    \E r \in Runs :
        /\ entry[r] = "transfer_labels"
        /\ pc[r] = "failed"
        /\ error[r] = "ValueError"
        /\ Len(locals[r].curv) = 0
        /\ Len(locals[r].pcloud) = 0

\* C9: when two distinct deduplicated boundary points have the same nearest
\* sampled point, the result holds one single row for that point, and its
\* is_corner is that of the later-processed boundary point.
C9_LastWriteWins ==
    \A r \in Runs :
        Returned(r) =>
            \A k1, k2 \in 1..Len(locals[r].curv_) :
                k1 < k2 /\ locals[r].pcloud_df_idxs[k1] = locals[r].pcloud_df_idxs[k2]
                        /\ ~(\E k3 \in (k2 + 1)..Len(locals[r].curv_) :
                                locals[r].pcloud_df_idxs[k3] = locals[r].pcloud_df_idxs[k2])
                => LET ks == {k \in 1..Len(locals[r].merged) :
                                locals[r].merged[k].pcloud_df_idx = locals[r].pcloud_df_idxs[k2]}
                   IN  /\ Cardinality(ks) = 1
                       /\ \A k \in ks :
                             locals[r].pcloud_[k].is_corner = locals[r].curv_[k2].is_corner

\* C10: the index _transfer_gt_labels returns for a boundary point is that of
\* a sampled point at minimal squared distance, the lowest such index.
C10_ArgminLowestIndex ==
    \A r \in Runs :
        Returned(r) =>
            /\ Len(locals[r].pcloud_df_idxs) = Len(locals[r].curv_)
            /\ \A k \in 1..Len(locals[r].curv_) :
                  IsNearest(locals[r].curv_[k], locals[r].pcloud, locals[r].pcloud_df_idxs[k])

\* A boundary point with two sampled points at the same minimal distance,
\* the second of them elsewhere in space.
C10_Witness ==
    \E r \in Runs :
        /\ Returned(r)
        /\ \E k \in 1..Len(locals[r].curv_) :
              \E i, j \in 1..Len(locals[r].pcloud) :
                  /\ i < j
                  /\ locals[r].pcloud[i] # locals[r].pcloud[j]
                  /\ SqDist(locals[r].curv_[k], locals[r].pcloud[i])
                        = SqDist(locals[r].curv_[k], locals[r].pcloud[j])
                  /\ locals[r].pcloud_df_idxs[k] = i - 1

====
